---- MODULE Spec2Model ----
(***************************************************************************)
(* A model of merkletreelib (src/src/tree.rs, src/src/hash.rs): a binary   *)
(* hash tree over an ordered collection of byte values, with append,       *)
(* inclusion-proof generation and proof verification.                      *)
(*                                                                         *)
(* Bytes.  A byte string is a sequence of symbols.  A symbol is a pair     *)
(* <<tag, data>>: a raw byte is <<name, <<>>>>, and the 32 bytes of a      *)
(* digest are the ONE symbol <<"H", data>>, data being the byte string     *)
(* that was hashed.  So concatenating two digests gives a byte string of   *)
(* two symbols, and a caller-supplied value may itself be such a string.   *)
(* sha256 is thereby a free constructor: deterministic and collision-free. *)
(*                                                                         *)
(* Option<T>: None is <<>>, Some(x) is <<x>>.                              *)
(***************************************************************************)
EXTENDS Integers, Sequences, FiniteSets, TLC

\* ------------------------------------------------------------- bounds
\* The largest number of leaves a tree of Spec grows to.
MaxLeaves == 4
\* The largest number of leaves a tree of DeepSpec grows to.
MaxDeep == 6
\* The longest input of each of the two from_bytes calls of PairSpec.
MaxPairLen == 4

\* ------------------------------------------------------------- bytes, sha256
Byte(name) == <<name, <<>>>>

\* src/src/hash.rs sha256
sha256(data) == <<"H", data>>

None == <<>>
Some(x) == <<x>>

\* The values callers supply.  vab is the 64-byte value whose bytes are the
\* digests of va and vb, one after the other.
va == <<Byte("a")>>
vb == <<Byte("b")>>
vz == <<Byte("z")>>
vab == <<sha256(va), sha256(vb)>>
Values == {va, vb, vab}

\* ------------------------------------------------------------- tree.rs
\* struct MerkleNode { hash, left, right }
MerkleNode(hash, left, right) == [hash |-> hash, left |-> left, right |-> right]

\* fn build_leaves_array: values.iter().map(..).collect()
build_leaves_array(values) ==
    [k \in 1..Len(values) |-> MerkleNode(sha256(values[k]), None, None)]

\* Mutants of build_parents: the right child always a copy of the left one;
\* the last node of an odd level promoted unchanged; the pair hashed as
\* right ++ left.
RECURSIVE build_parents_left_only(_, _, _)
build_parents_left_only(nodes, i, parents) ==
    IF i < Len(nodes)
    THEN LET left  == nodes[i + 1]
             right == nodes[i + 1]
             hash  == sha256(<<left.hash, right.hash>>)
         IN build_parents_left_only(nodes, i + 2,
                Append(parents, MerkleNode(hash, Some(left), Some(right))))
    ELSE parents

RECURSIVE build_parents_promote(_, _, _)
build_parents_promote(nodes, i, parents) ==
    IF i < Len(nodes)
    THEN IF i + 1 < Len(nodes)
         THEN LET left  == nodes[i + 1]
                  right == nodes[i + 2]
                  hash  == sha256(<<left.hash, right.hash>>)
              IN build_parents_promote(nodes, i + 2,
                     Append(parents, MerkleNode(hash, Some(left), Some(right))))
         ELSE build_parents_promote(nodes, i + 2, Append(parents, nodes[i + 1]))
    ELSE parents

RECURSIVE build_parents_swapped(_, _, _)
build_parents_swapped(nodes, i, parents) ==
    IF i < Len(nodes)
    THEN LET left  == nodes[i + 1]
             right == IF i + 1 < Len(nodes) THEN nodes[i + 2] ELSE nodes[i + 1]
             hash  == sha256(<<right.hash, left.hash>>)
         IN build_parents_swapped(nodes, i + 2,
                Append(parents, MerkleNode(hash, Some(left), Some(right))))
    ELSE parents

\* The while loop of build_merkle_tree_recursively (i counts from 0 as in the
\* source, nodes[i] of the source is nodes[i + 1] here).
RECURSIVE build_parents(_, _, _)
build_parents(nodes, i, parents) ==
    IF i < Len(nodes)
    THEN LET left  == nodes[i + 1]
             right == IF i + 1 < Len(nodes) THEN nodes[i + 2] ELSE nodes[i + 1]
             data  == <<left.hash, right.hash>>
             hash  == sha256(data)
         IN build_parents(nodes, i + 2,
                          Append(parents, MerkleNode(hash, Some(left), Some(right))))
    ELSE parents

RECURSIVE build_merkle_tree_recursively(_)
build_merkle_tree_recursively(nodes) ==
    IF Len(nodes) = 1
    THEN nodes[1]
    ELSE build_merkle_tree_recursively(build_parents(nodes, 0, <<>>))

\* MerkleTree { root, leaves }
MerkleTree(r, l) == [root |-> r, leaves |-> l]

\* Mutant of from_bytes: the leaf digests are not recorded.
from_bytes_leaves_dropped(values) ==
    LET lvs == build_leaves_array(values)
        r   == IF lvs # <<>> THEN Some(build_merkle_tree_recursively(lvs)) ELSE None
    IN MerkleTree(r, <<>>)

\* MerkleTree::from_bytes
from_bytes(values) ==
    LET lvs == build_leaves_array(values)
        r   == IF lvs # <<>> THEN Some(build_merkle_tree_recursively(lvs)) ELSE None
    IN MerkleTree(r, [k \in 1..Len(lvs) |-> lvs[k].hash])

\* Mutants of push: the root is left as it was; the new digest is put first.
push_stale(self, value) ==
    MerkleTree(self.root, Append(self.leaves, sha256(value)))

push_prepend(self, value) ==
    LET newLeaves == <<sha256(value)>> \o self.leaves
        nodes     == [k \in 1..Len(newLeaves) |-> MerkleNode(newLeaves[k], None, None)]
    IN MerkleTree(Some(build_merkle_tree_recursively(nodes)), newLeaves)

\* MerkleTree::push
push(self, value) ==
    LET leaf_hashed == sha256(value)
        newLeaves   == Append(self.leaves, leaf_hashed)
        nodes       == [k \in 1..Len(newLeaves) |-> MerkleNode(newLeaves[k], None, None)]
        new_tree    == IF nodes = <<>> THEN None
                       ELSE Some(build_merkle_tree_recursively(nodes))
    IN MerkleTree(new_tree, newLeaves)

\* MerkleTree::get_root
get_root(self) == IF self.root = None THEN None ELSE Some(self.root[1].hash)

\* Mutants of dfs_generate_proof: the target is compared with the digest of
\* every node, not only of the childless ones; the right subtree is searched
\* before the left one.
RECURSIVE dfs_any_node(_, _, _)
dfs_any_node(node, target, proof) ==
    IF node.hash = target \/ (node.left = None /\ node.right = None)
    THEN [found |-> node.hash = target, proof |-> proof]
    ELSE LET l == dfs_any_node(node.left[1], target, proof)
         IN IF l.found
            THEN [found |-> TRUE,
                  proof |-> Append(l.proof, <<node.right[1].hash, "Right">>)]
            ELSE LET r == dfs_any_node(node.right[1], target, l.proof)
                 IN IF r.found
                    THEN [found |-> TRUE,
                          proof |-> Append(r.proof, <<node.left[1].hash, "Left">>)]
                    ELSE [found |-> FALSE, proof |-> r.proof]

RECURSIVE dfs_right_first(_, _, _)
dfs_right_first(node, target, proof) ==
    IF node.left = None /\ node.right = None
    THEN [found |-> node.hash = target, proof |-> proof]
    ELSE LET r == dfs_right_first(node.right[1], target, proof)
         IN IF r.found
            THEN [found |-> TRUE,
                  proof |-> Append(r.proof, <<node.left[1].hash, "Left">>)]
            ELSE LET l == dfs_right_first(node.left[1], target, r.proof)
                 IN IF l.found
                    THEN [found |-> TRUE,
                          proof |-> Append(l.proof, <<node.right[1].hash, "Right">>)]
                    ELSE [found |-> FALSE, proof |-> l.proof]

\* fn dfs_generate_proof: the bool it returns and the proof vector it leaves.
RECURSIVE dfs_generate_proof(_, _, _)
dfs_generate_proof(node, target, proof) ==
    IF node.left = None /\ node.right = None
    THEN [found |-> node.hash = target, proof |-> proof]
    ELSE LET l == IF node.left # None
                  THEN dfs_generate_proof(node.left[1], target, proof)
                  ELSE [found |-> FALSE, proof |-> proof]
         IN IF l.found
            THEN [found |-> TRUE,
                  proof |-> IF node.right # None
                            THEN Append(l.proof, <<node.right[1].hash, "Right">>)
                            ELSE l.proof]
            ELSE LET r == IF node.right # None
                          THEN dfs_generate_proof(node.right[1], target, l.proof)
                          ELSE [found |-> FALSE, proof |-> l.proof]
                 IN IF r.found
                    THEN [found |-> TRUE,
                          proof |-> IF node.left # None
                                    THEN Append(r.proof, <<node.left[1].hash, "Left">>)
                                    ELSE r.proof]
                    ELSE [found |-> FALSE, proof |-> r.proof]

\* MerkleTree::generate_proof
generate_proof(self, target) ==
    IF self.root = None
    THEN None
    ELSE LET d == dfs_generate_proof(self.root[1], target, <<>>)
         IN IF d.found THEN Some(d.proof) ELSE None

\* Mutants of verify_step: the direction is ignored; the two directions are
\* taken for each other.
verify_step_no_direction(current, entry) == sha256(<<current, entry[1]>>)

verify_step_swapped(current, entry) ==
    IF entry[2] = "Left"
    THEN sha256(<<current, entry[1]>>)
    ELSE sha256(<<entry[1], current>>)

\* One iteration of the loop of verify_proof.
verify_step(current, entry) ==
    LET sibling_hash == entry[1]
        direction    == entry[2]
        data == IF direction = "Left"
                THEN <<sibling_hash, current>>
                ELSE <<current, sibling_hash>>
    IN sha256(data)

RECURSIVE verify_fold(_, _, _)
verify_fold(current, proof, k) ==
    IF k > Len(proof) THEN current
    ELSE verify_fold(verify_step(current, proof[k]), proof, k + 1)

\* pub fn verify_proof
verify_proof(leaf_hash, proof, root_hash) ==
    verify_fold(leaf_hash, proof, 1) = root_hash

\* ------------------------------------------------------------- state
VARIABLES
    root,     \* MerkleTree.root
    leaves,   \* MerkleTree.leaves
    values,   \* the values supplied so far, to from_bytes and then to push
    held,     \* the caller's copy of the last proof generate_proof returned,
              \* with its target and the root digest of the tree it came from
    last,     \* the most recent call: its name, arguments and return value
    pair      \* PairSpec: two inputs and the root digests from_bytes gives them

vars == <<root, leaves, values, held, last, pair>>

self == MerkleTree(root, leaves)

RECURSIVE SeqsUpTo(_, _)
SeqsUpTo(S, n) ==
    IF n = 0 THEN {<<>>}
    ELSE LET shorter == SeqsUpTo(S, n - 1)
         IN shorter \cup {Append(s, x) : s \in shorter, x \in S}

\* The digests of all nodes of the tree under node.
RECURSIVE NodeHashes(_)
NodeHashes(node) ==
    {node.hash}
    \cup (IF node.left = None THEN {} ELSE NodeHashes(node.left[1]))
    \cup (IF node.right = None THEN {} ELSE NodeHashes(node.right[1]))

\* The digests a caller passes: of every value, of a value that is never
\* supplied, and of every node of the current tree (internal nodes and root).
DigestPool ==
    {sha256(v) : v \in Values \cup {vz}}
    \cup (IF root = None THEN {} ELSE NodeHashes(root[1]))

\* let mut tree = MerkleTree::from_bytes(&vals), vals of at most n values
Construct(n) ==
    \E vals \in SeqsUpTo(Values, n) :
        LET t == from_bytes(vals)
        IN /\ root = t.root
           /\ leaves = t.leaves
           /\ values = vals
           /\ held = None
           /\ last = [op |-> "from_bytes"]
           /\ pair = None

\* tree.push(v), while the tree has fewer than n leaves
PushUpTo(n) ==
    \E v \in Values :
        /\ Len(leaves) < n
        /\ LET t == push(self, v)
           IN /\ root' = t.root
              /\ leaves' = t.leaves
        /\ values' = Append(values, v)
        /\ last' = [op |-> "push"]
        /\ UNCHANGED <<held, pair>>

\* tree.get_root()
GetRoot ==
    /\ last' = [op |-> "get_root", ret |-> get_root(self)]
    /\ UNCHANGED <<root, leaves, values, held, pair>>

\* tree.generate_proof(&t); the caller keeps a proof that was returned.
GenerateProof ==
    \E t \in DigestPool :
        LET p == generate_proof(self, t)
        IN /\ last' = [op |-> "generate_proof", target |-> t, ret |-> p]
           /\ held' = IF p = None THEN held
                      ELSE Some([target |-> t, proof |-> p[1],
                                 root |-> get_root(self)[1]])
           /\ UNCHANGED <<root, leaves, values, pair>>

\* proof with the sibling digest of entry k replaced by d.
WithSibling(proof, k, d) == [proof EXCEPT ![k] = <<d, proof[k][2]>>]

\* proof with the Direction of entry k flipped.
Flip(direction) == IF direction = "Left" THEN "Right" ELSE "Left"
WithFlip(proof, k) == [proof EXCEPT ![k] = <<proof[k][1], Flip(proof[k][2])>>]

\* verify_proof(leaf_hash, &proof, root_hash); tamper and at record what the
\* caller changed in the held proof, and in which entry.
Verify(leaf_hash, proof, root_hash, tamper, at) ==
    /\ last' = [op |-> "verify_proof", leaf_hash |-> leaf_hash, proof |-> proof,
                root_hash |-> root_hash, tamper |-> tamper, at |-> at,
                ret |-> verify_proof(leaf_hash, proof, root_hash)]
    /\ UNCHANGED <<root, leaves, values, held, pair>>

\* The held proof as it was returned, against the root it came from.
VerifyHeld ==
    /\ held # None
    /\ Verify(held[1].target, held[1].proof, held[1].root, "none", 0)

\* ... with one sibling digest replaced by a different digest.
VerifyWrongSibling ==
    /\ held # None
    /\ \E k \in 1..Len(held[1].proof) :
         \E d \in DigestPool \ {held[1].proof[k][1]} :
            Verify(held[1].target, WithSibling(held[1].proof, k, d), held[1].root,
                   "sibling", k)

\* ... with the Direction of one entry flipped.
VerifyWrongDirection ==
    /\ held # None
    /\ \E k \in 1..Len(held[1].proof) :
            Verify(held[1].target, WithFlip(held[1].proof, k), held[1].root,
                   "direction", k)

\* ... against a claimed root other than the root of the tree it came from.
VerifyWrongRoot ==
    /\ held # None
    /\ \E r \in DigestPool \ {held[1].root} :
            Verify(held[1].target, held[1].proof, r, "root", 0)

Init == Construct(MaxLeaves)

Push == PushUpTo(MaxLeaves)

Next ==
    \/ Push
    \/ GetRoot
    \/ GenerateProof
    \/ VerifyHeld
    \/ VerifyWrongSibling
    \/ VerifyWrongDirection
    \/ VerifyWrongRoot

\* from_bytes, then any interleaving of push, get_root, generate_proof and
\* verify_proof on the held proof, tampered with or not.
Spec == Init /\ [][Next]_vars

\* ------------------------------------------------------------- DeepSpec
\* Deeper trees: from_bytes, then push, and at any time the round trip of the
\* tests: the proof for a digest, when there is one, verified against the
\* tree's current root.
DeepInit == Construct(MaxDeep)

Grow == PushUpTo(MaxDeep)

Prove ==
    \E t \in DigestPool :
        LET p == generate_proof(self, t)
        IN /\ last' = [op |-> "prove", target |-> t, proof |-> p,
                       ret |-> IF p = None THEN FALSE
                               ELSE verify_proof(t, p[1], get_root(self)[1])]
           /\ UNCHANGED <<root, leaves, values, held, pair>>

DeepNext ==
    \/ Grow
    \/ Prove

DeepSpec == DeepInit /\ [][DeepNext]_vars

\* ------------------------------------------------------------- PairSpec
\* Two inputs, and from_bytes applied to each.
PairInit ==
    /\ root = None
    /\ leaves = <<>>
    /\ values = <<>>
    /\ held = None
    /\ last = [op |-> "none"]
    /\ \E a \in SeqsUpTo(Values, MaxPairLen) :
         \E b \in SeqsUpTo(Values, MaxPairLen) :
            pair = Some([a |-> a, b |-> b, built |-> FALSE,
                         rootA |-> None, rootB |-> None])

FromBytesBoth ==
    /\ ~pair[1].built
    /\ pair' = Some([pair[1] EXCEPT !.built = TRUE,
                                    !.rootA = get_root(from_bytes(pair[1].a)),
                                    !.rootB = get_root(from_bytes(pair[1].b))])
    /\ UNCHANGED <<root, leaves, values, held, last>>

PairNext == FromBytesBoth

PairSpec == PairInit /\ [][PairNext]_vars

\* ------------------------------------------------------------- properties
Range(s) == {s[k] : k \in 1..Len(s)}

\* The digests of the childless nodes under node, read left to right.
RECURSIVE InOrderLeaves(_)
InOrderLeaves(node) ==
    IF node.left = None /\ node.right = None
    THEN <<node.hash>>
    ELSE (IF node.left = None THEN <<>> ELSE InOrderLeaves(node.left[1]))
         \o (IF node.right = None THEN <<>> ELSE InOrderLeaves(node.right[1]))

\* The reference reduction of a level of digests: pairs H(x1 ++ x2), ..., and
\* H(xlast ++ xlast) for the last digest of a level of odd length.
RefLevelUp(ds) ==
    [k \in 1..((Len(ds) + 1) \div 2) |->
        IF 2 * k <= Len(ds)
        THEN sha256(<<ds[2 * k - 1], ds[2 * k]>>)
        ELSE sha256(<<ds[2 * k - 1], ds[2 * k - 1]>>)]

RECURSIVE RefReduce(_)
RefReduce(ds) == IF Len(ds) = 1 THEN ds[1] ELSE RefReduce(RefLevelUp(ds))

\* The reference path of the digest at index i (from 1) of the level ds: the
\* sibling of each path node from the bottom level up, Right when the path
\* node is a left child and Left when it is a right child.
RECURSIVE RefPath(_, _)
RefPath(ds, i) ==
    IF Len(ds) = 1
    THEN <<>>
    ELSE LET entry == IF i % 2 = 1
                      THEN <<IF i + 1 <= Len(ds) THEN ds[i + 1] ELSE ds[i], "Right">>
                      ELSE <<ds[i - 1], "Left">>
         IN <<entry>> \o RefPath(RefLevelUp(ds), (i + 1) \div 2)

FirstIndex(ds, t) == CHOOSE i \in 1..Len(ds) : ds[i] = t /\ \A j \in 1..(i - 1) : ds[j] # t

RECURSIVE Pow2AtLeast(_, _)
Pow2AtLeast(n, p) == IF p >= n THEN p ELSE Pow2AtLeast(n, 2 * p)

\* C1: for every value v supplied to the tree, by from_bytes or by push,
\* generate_proof(H(v)) returns a proof and verify_proof accepts it against
\* the tree's current root digest; a round trip the caller made returned true
\* whenever its target was the digest of a supplied value.
C1_RoundTrip ==
    /\ \A i \in 1..Len(values) :
          LET t == sha256(values[i])
              p == generate_proof(self, t)
          IN /\ p # None
             /\ verify_proof(t, p[1], get_root(self)[1])
    /\ (last.op = "prove" /\ \E i \in 1..Len(values) : last.target = sha256(values[i]))
          => (last.proof # None /\ last.ret = TRUE)

\* A round trip that returned true for the last value of a five-value input
\* with repeated values: its leaf is paired with a copy of itself.
C1_Witness ==
    /\ last.op = "prove"
    /\ last.ret = TRUE
    /\ Len(values) = 5
    /\ last.target = sha256(values[5])
    /\ values[5] \notin {values[k] : k \in 1..4}
    /\ values[1] = values[3]
    /\ Len(last.proof[1]) = 3

\* C2: the tree reached by from_bytes(v1..vk) and then push(vk+1) .. push(vn)
\* has the root and the leaves that from_bytes(v1..vn) gives.
C2_PushIsBatch ==
    /\ root = from_bytes(values).root
    /\ leaves = from_bytes(values).leaves

\* A push has made a five-leaf tree.
C2_Witness ==
    /\ last.op = "push"
    /\ Len(values) = 5
    /\ root # None

\* C9: the root digest is the reference reduction of the leaf digests, which
\* pairs the last digest of an odd level with itself; a one-value tree's root
\* is H(value), and the root of [a, b, x] is H(H(h(a) ++ h(b)) ++ H(h(x) ++ h(x))).
C9_OddDuplication ==
    /\ root # None => get_root(self)[1] = RefReduce([k \in 1..Len(values) |-> sha256(values[k])])
    /\ Len(values) = 1 => get_root(self) = Some(sha256(values[1]))
    /\ values = <<va, vb, vab>> =>
          get_root(self)[1] = sha256(<<sha256(<<sha256(va), sha256(vb)>>),
                                       sha256(<<sha256(vab), sha256(vab)>>)>>)

\* A five-leaf tree: its levels have 5, 3, 2 and 1 nodes, two of them odd.
C9_Witness ==
    /\ Len(leaves) = 5
    /\ root # None
    /\ Len(InOrderLeaves(root[1])) = 8

\* C6 as stated: whenever the root is present, leaves is exactly the sequence
\* of the digests of the childless nodes of the tree, left to right.
C6_Original ==
    root # None => leaves = InOrderLeaves(root[1])

\* C6 amended: whenever the root is present, leaves is a prefix of the digests
\* of the childless nodes read left to right; that sequence has the least power
\* of two that is at least Len(leaves) as its length, and its further entries
\* are digests that occur in leaves.  The two are equal exactly when
\* Len(leaves) is a power of two.
C6_LeavesArePrefix ==
    root # None =>
        LET io == InOrderLeaves(root[1])
        IN /\ Len(io) = Pow2AtLeast(Len(leaves), 1)
           /\ SubSeq(io, 1, Len(leaves)) = leaves
           /\ \A k \in (Len(leaves) + 1)..Len(io) : io[k] \in Range(leaves)
           /\ (io = leaves) <=> (Len(leaves) = Pow2AtLeast(Len(leaves), 1))

\* A push has made a six-leaf tree, which has eight childless nodes.
C6_Witness ==
    /\ last.op = "push"
    /\ Len(leaves) = 6
    /\ Len(InOrderLeaves(root[1])) = 8

\* C10: for a target that is the digest of some leaf, generate_proof returns
\* the reference path of the first leaf with that digest: siblings from the
\* leaf's level up to the level below the root, Right for a path node that is
\* a left child and Left for one that is a right child, and nothing else.
C10_LeftmostBottomUp ==
    /\ \A t \in Range(leaves) :
          generate_proof(self, t) = Some(RefPath(leaves, FirstIndex(leaves, t)))
    /\ (last.op = "prove" /\ last.target \in Range(leaves))
          => last.proof = Some(RefPath(leaves, FirstIndex(leaves, last.target)))

\* A proof for a digest that two leaves have, the first of them a right child
\* in the left half of the tree, so that the search failed in a subtree
\* before it succeeded and the proof has entries of both directions.
C10_Witness ==
    /\ last.op = "prove"
    /\ Len(leaves) = 6
    /\ leaves[2] = last.target
    /\ leaves[5] = last.target
    /\ leaves[1] # last.target
    /\ last.proof # None
    /\ last.proof[1][1][2] = "Left"
    /\ last.proof[1][2][2] = "Right"
    /\ Len(last.proof[1]) = 3

\* The digest verify_proof has computed when it reaches entry k of proof.
Running(leaf_hash, proof, k) == verify_fold(leaf_hash, SubSeq(proof, 1, k - 1), 1)

\* C3 as stated: a proof generate_proof returned, with one sibling digest
\* replaced by a different digest, or the Direction of one entry flipped, or
\* checked against a root other than its tree's, makes verify_proof return
\* false.
C3_Original ==
    (last.op = "verify_proof" /\ last.tamper \in {"sibling", "direction", "root"})
        => last.ret = FALSE

\* C3 amended: the same for a replaced sibling digest and for a wrong root;
\* flipping the Direction of entry k makes verify_proof return false exactly
\* when the sibling digest of entry k differs from the digest verify_proof
\* has computed on reaching entry k.  Flipping the entry of a node that is
\* paired with an equal digest (the copy an odd level makes, or an equal
\* neighbour) leaves the result true.
C3_ProofRejection ==
    /\ (last.op = "verify_proof" /\ last.tamper = "none") => last.ret = TRUE
    /\ (last.op = "verify_proof" /\ last.tamper \in {"sibling", "root"})
          => last.ret = FALSE
    /\ (last.op = "verify_proof" /\ last.tamper = "direction")
          => (last.ret = FALSE
                <=> last.proof[last.at][1]
                      # Running(last.leaf_hash, last.proof, last.at))

\* verify_proof rejected a proof of two entries whose second Direction was
\* flipped.
C3_Witness ==
    /\ last.op = "verify_proof"
    /\ last.tamper = "direction"
    /\ last.at = 2
    /\ Len(last.proof) = 2
    /\ last.ret = FALSE

\* C4: a push of a value whose digest no leaf of a non-empty tree has changes
\* the root digest, and no proof generate_proof returned before the push (the
\* held one, or one for any target in the tree as it was) verifies against the
\* root after the push.
C4_PushInvalidates ==
    [][(/\ leaves' # leaves
        /\ root # None
        /\ leaves'[Len(leaves')] \notin Range(leaves))
       => (/\ get_root(MerkleTree(root', leaves')) # get_root(self)
           /\ held # None
                => ~verify_proof(held[1].target, held[1].proof, root'[1].hash)
           /\ \A t \in DigestPool :
                LET p == generate_proof(self, t)
                IN p # None => ~verify_proof(t, p[1], root'[1].hash))]_vars

\* After such a push, the proof held from the tree before the push was
\* checked against the new root and rejected.
C4_Witness ==
    /\ last.op = "verify_proof"
    /\ last.tamper = "root"
    /\ last.ret = FALSE
    /\ last.root_hash = get_root(self)[1]
    /\ Len(values) = 3
    /\ leaves[3] \notin {leaves[1], leaves[2]}
    /\ held[1].root = get_root(from_bytes(SubSeq(values, 1, 2)))[1]
    /\ last.proof = held[1].proof

\* C7: the root is absent exactly when leaves is empty; from_bytes of an empty
\* input gives the empty tree; every push gives a non-empty tree that is one
\* leaf longer; no step leads from a present root to an absent one; get_root,
\* generate_proof and verify_proof leave root and leaves unchanged.
C7_TwoStates ==
    /\ [](root = None <=> leaves = <<>>)
    /\ []((last.op = "from_bytes" /\ values = <<>>) => (root = None /\ leaves = <<>>))
    /\ []((last.op = "from_bytes" /\ values # <<>>) => (root # None /\ leaves # <<>>))
    /\ [][/\ last'.op = "push" => (root' # None /\ Len(leaves') = Len(leaves) + 1)
          /\ root # None => root' # None
          /\ last'.op \in {"get_root", "generate_proof", "verify_proof"}
                => (root' = root /\ leaves' = leaves)]_vars

\* The last call was a push and one value has been supplied: the push was
\* made on the empty tree, and the root is present after it.
C7_Witness ==
    /\ last.op = "push"
    /\ Len(values) = 1
    /\ root # None

\* C8: generate_proof(t) returns a proof exactly when some recorded leaf
\* digest equals t: None on the empty tree, None for a digest that only an
\* internal node or the root of a tree of several leaves has.
C8_MembershipDecides ==
    /\ \A t \in DigestPool :
          (generate_proof(self, t) # None) <=> (t \in Range(leaves))
    /\ last.op = "generate_proof" =>
          ((last.ret # None) <=> (last.target \in Range(leaves)))
    /\ (last.op = "generate_proof" /\ root = None) => last.ret = None

\* generate_proof returned None for the root digest of a tree of three leaves,
\* a digest no leaf has.
C8_Witness ==
    /\ last.op = "generate_proof"
    /\ last.ret = None
    /\ Len(leaves) = 3
    /\ last.target = get_root(self)[1]
    /\ last.target \notin Range(leaves)

\* C5 as stated: two inputs that differ in any way get different root digests.
C5_Original ==
    (pair # None /\ pair[1].built /\ pair[1].a # pair[1].b)
        => pair[1].rootA # pair[1].rootB

\* C5 amended: two inputs of the same length that differ (in a value or in
\* the order) get different root digests.  Inputs of different lengths can
\* get the same one: [a, b, x] and [a, b, x, x], or [a, b] and the one value
\* h(a) ++ h(b).
C5_SameLengthCommits ==
    (pair # None /\ pair[1].built /\ pair[1].a # pair[1].b
       /\ Len(pair[1].a) = Len(pair[1].b))
        => pair[1].rootA # pair[1].rootB

\* from_bytes has been applied to [a, b, x] and to the reordering [x, b, a].
C5_Witness ==
    /\ pair # None
    /\ pair[1].built
    /\ pair[1].a = <<va, vb, vab>>
    /\ pair[1].b = <<vab, vb, va>>
    /\ pair[1].rootA # pair[1].rootB
====
